---- MODULE Spec2Model ----
(***************************************************************************)
(* Console redirection of marimo/_messaging/streams.py: ThreadSafeStream   *)
(* (stream_lock, console_msg_cv, console_msg_queue), the ThreadSafeStdout  *)
(* and ThreadSafeStderr sinks, the Watcher that redirects a file           *)
(* descriptor into a pipe, its forwarding thread and the redirect scope.   *)
(* Every thread is a small program counter machine; one action is one      *)
(* atomic step of the Python code (a lock acquire, a deque append, a       *)
(* system call).                                                           *)
(***************************************************************************)
EXTENDS Integers, Sequences, FiniteSets, TLC

\* ---------------------------------------------------------------- bounds
MaxWrites == 3       \* calls the producer threads may issue in all
MaxRebind == 1       \* times the owner rebinds cell_id
MaxScopes == 2       \* redirect scopes the owner enters
MaxRaw == 2          \* raw writes to the watched descriptor
NumFds == 5          \* size of the process's descriptor table
MaxBytes == 4        \* std_stream_max_bytes(), the configured limit
StrOverhead == 1     \* what sys.getsizeof adds to a str's length

\* --------------------------------------------------------------- threads
Producers == {"p1", "p2"}
Worker == "bw"       \* buffered_console_thread (buffered_writer)
Main == "main"       \* the owner: binds cell_id, stops the stream
Fwd == "fwd"         \* Watcher.thread (_forward_os_stream)
Threads == Producers \cup {Worker, Main, Fwd}

None == "None"
Free == "free"
Cells == {"c1", "c2"}

VARIABLES
  pc,                 \* position of every thread
  cur,                \* the message a thread is writing (local of write)
  raised,             \* how a thread's last call ended: "none" or the exception
  wcount,             \* calls issued so far by each thread
  stream_lock,        \* ThreadSafeStream.stream_lock: holder or Free
  console_msg_cv,     \* lock of ThreadSafeStream.console_msg_cv: holder or Free
  cv_waiters,         \* threads blocked in console_msg_cv.wait()
  console_msg_queue,  \* ThreadSafeStream.console_msg_queue
  cell_id,            \* ThreadSafeStream.cell_id
  redirect_console,   \* ThreadSafeStream.redirect_console
  pipe_kind,          \* "conn": a Connection; "queue": a QueuePipe
  pipe_closed,        \* the Connection's far end is gone
  qlen,               \* items now in the QueuePipe's queue
  batch,              \* messages the drain worker popped and still delivers
  rebinds,            \* cell_id rebinds so far
  stopped,            \* ThreadSafeStream.stop has been called
  lock_order,         \* history: messages in the order stream_lock was acquired
  sent                \* history: messages in the order pipe.send was entered

VARIABLES
  fdtab,              \* the process's descriptor table: what each descriptor refers to
  fd_dup,             \* Watcher.fd_dup, Unset before the first start
  fileno,             \* the sink's _fileno (NoFd for None)
  should_exit,        \* Watcher._should_exit
  pipebuf,            \* bytes in the Watcher's pipe, oldest first
  fdata,              \* the bytes os.read returned to the forwarding thread
  wsink,              \* the sink the Watcher serves: "STDOUT" or "STDERR"
  rfile,              \* what the forwarding thread's blocked os.read reads from
  stop_called,        \* Watcher.stop has been entered
  stop_ret,           \* where the owner was when it called Watcher.stop
  owned,              \* history: descriptors the Watcher opened and has not closed
  starts_ok,          \* history: no Watcher.start has raised so far
  scopes,             \* history: redirect scopes exited so far
  rawn,               \* history: raw writes that went into the pipe
  forwarded           \* history: raw writes whose bytes were passed to the sink

VARIABLES
  input_queue,        \* ThreadSafeStream.input_queue: replies not yet pulled
  pushed,             \* history: replies the consumer has pushed so far
  ret,                \* what each thread's last read-line call returned
  arg,                \* the argument of each thread's last sink or read-line call
  stderr_log,         \* history: the writes made to sys.stderr
  fwd_cells           \* history: per sink write of the forwarding thread, the
                      \* cell_id values bound when its bytes were written

svars == <<pc, cur, raised, wcount, stream_lock, console_msg_cv, cv_waiters,
           console_msg_queue, cell_id, redirect_console, pipe_kind,
           pipe_closed, qlen, batch, rebinds, stopped, lock_order, sent>>

wvars == <<wsink, fdtab, fd_dup, fileno, should_exit, pipebuf, fdata, rfile,
           stop_called, stop_ret, owned, starts_ok, scopes, rawn, forwarded>>

ivars == <<input_queue, pushed, ret, arg, stderr_log, fwd_cells>>

vars == <<svars, wvars, ivars>>

\* -------------------------------------------------------------- messages
\* A ConsoleMsg (stream, cell_id, data, mimetype) or the (op, data) pair of a
\* direct ThreadSafeStream.write; src and n tell which call of which thread
\* made it.  Text is a sequence of characters.
ConsoleMsg(stream, cell, src, n, data) ==
  [stream |-> stream, cell_id |-> cell, src |-> src, n |-> n, data |-> data]

\* the None that ThreadSafeStream.stop appends
Sentinel == ConsoleMsg("NONE", None, Main, 0, <<>>)

NotStr == <<"#bytes">>            \* an argument that is no str
Payloads == {<<"x">>}             \* the text a producer passes to write
\* every argument passes for a str
IsStr_Any(d) == TRUE
IsStr(d) == d # NotStr

\* maxsize of the queue.Queue behind a QueuePipe
QueueMaxsize == 1

\* where a thread continues when the call it is in returns or raises
ReturnPc(t) ==
  IF t = Worker THEN "w_next" ELSE IF t = Fwd THEN "f_check" ELSE "idle"
RaisePc(t) ==
  IF t = Worker THEN "w_crashed" ELSE IF t = Fwd THEN "f_done" ELSE "idle"

RECURSIVE SumOver(_, _)
SumOver(f, S) ==
  IF S = {} THEN 0
  ELSE LET x == CHOOSE y \in S : TRUE IN f[x] + SumOver(f, S \ {x})

\* calls issued so far by the producer threads
Issued == SumOver(wcount, Producers)

\* ---------------------------------------------------- ThreadSafeStream.write
\* the lock is not taken: write enters pipe.send whoever holds stream_lock
StreamLockAcquire_NoLock(t) ==
  /\ pc[t] = "sw_lock"
  /\ stream_lock' = t
  /\ lock_order' = Append(lock_order, cur[t])
  /\ pc' = [pc EXCEPT ![t] = "sw_send"]
  /\ UNCHANGED <<cur, raised, wcount, console_msg_cv, cv_waiters,
                 console_msg_queue, cell_id, redirect_console, pipe_kind,
                 pipe_closed, qlen, batch, rebinds, stopped, sent>>
  /\ UNCHANGED <<wvars, ivars>>

\* `with self.stream_lock:` entered
StreamLockAcquire(t) ==
  /\ pc[t] = "sw_lock"
  /\ stream_lock = Free
  /\ stream_lock' = t
  /\ lock_order' = Append(lock_order, cur[t])
  /\ pc' = [pc EXCEPT ![t] = "sw_send"]
  /\ UNCHANGED <<cur, raised, wcount, console_msg_cv, cv_waiters,
                 console_msg_queue, cell_id, redirect_console, pipe_kind,
                 pipe_closed, qlen, batch, rebinds, stopped, sent>>
  /\ UNCHANGED <<wvars, ivars>>

\* QueuePipe.send: put_nowait raises queue.Full when the queue is full
QueuePipeSend ==
  IF qlen >= QueueMaxsize THEN "Full" ELSE "ok"

\* PipeProtocol.send of a Connection: OSError once the far end is gone
ConnSend ==
  IF pipe_closed THEN "OSError" ELSE "ok"

\* self.pipe.send((op, data)) inside try/except OSError
PipeSend(t) ==
  /\ pc[t] = "sw_send"
  /\ LET res == IF pipe_kind = "queue" THEN QueuePipeSend ELSE ConnSend IN
       /\ sent' = Append(sent, [msg |-> cur[t], res |-> res])
       /\ qlen' = IF pipe_kind = "queue" /\ res = "ok" THEN qlen + 1 ELSE qlen
       \* except OSError: logged, swallowed; anything else propagates
       /\ raised' = [raised EXCEPT ![t] = IF res \in {"ok", "OSError"} THEN "none" ELSE res]
  /\ pc' = [pc EXCEPT ![t] = "sw_unlock"]
  /\ UNCHANGED <<cur, wcount, stream_lock, console_msg_cv, cv_waiters,
                 console_msg_queue, cell_id, redirect_console, pipe_kind,
                 pipe_closed, batch, rebinds, stopped, lock_order>>
  /\ UNCHANGED <<wvars, ivars>>

\* acquire()/release() without try/finally: a failed send returns early
StreamLockRelease_NotOnFailure(t) ==
  /\ pc[t] = "sw_unlock"
  /\ stream_lock' = IF sent[Len(sent)].res = "ok" THEN Free ELSE stream_lock
  /\ pc' = [pc EXCEPT ![t] = IF raised[t] = "none" THEN ReturnPc(t) ELSE RaisePc(t)]
  /\ UNCHANGED <<cur, raised, wcount, console_msg_cv, cv_waiters,
                 console_msg_queue, cell_id, redirect_console, pipe_kind,
                 pipe_closed, qlen, batch, rebinds, stopped, lock_order, sent>>
  /\ UNCHANGED <<wvars, ivars>>

\* the with statement's exit: on the normal and on the exceptional path
StreamLockRelease(t) ==
  /\ pc[t] = "sw_unlock"
  /\ stream_lock' = Free
  /\ pc' = [pc EXCEPT ![t] = IF raised[t] = "none" THEN ReturnPc(t) ELSE RaisePc(t)]
  /\ UNCHANGED <<cur, raised, wcount, console_msg_cv, cv_waiters,
                 console_msg_queue, cell_id, redirect_console, pipe_kind,
                 pipe_closed, qlen, batch, rebinds, stopped, lock_order, sent>>
  /\ UNCHANGED <<wvars, ivars>>

\* a thread other than the drain worker calls stream.write(op, data)
DirectWrite(t) ==
  /\ pc[t] = "idle"
  /\ Issued < MaxWrites
  /\ wcount' = [wcount EXCEPT ![t] = @ + 1]
  /\ cur' = [cur EXCEPT ![t] = ConsoleMsg("OP", None, t, wcount[t] + 1, <<"x">>)]
  /\ raised' = [raised EXCEPT ![t] = "none"]
  /\ pc' = [pc EXCEPT ![t] = "sw_lock"]
  /\ UNCHANGED <<stream_lock, console_msg_cv, cv_waiters, console_msg_queue,
                 cell_id, redirect_console, pipe_kind, pipe_closed, qlen,
                 batch, rebinds, stopped, lock_order, sent>>
  /\ UNCHANGED <<wvars, ivars>>

\* ------------------------------------------------------- condition variable
\* console_msg_cv.notify(): wakes one waiter, if there is one
Notify(waiters) ==
  IF waiters = {} THEN {} ELSE waiters \ {CHOOSE w \in waiters : TRUE}

\* --------------------------------------------------------- the size limit
Min(a, b) == IF a < b THEN a ELSE b

\* the text of length n
Text(n) == [i \in 1..n |-> "x"]

\* "Warning: marimo truncated a very large console output.\n", shortened
Warning == <<"Warning", "\n">>

\* " ... "
Marker == <<" ", ".", ".", ".", " ">>

\* sys.getsizeof(data) > max_bytes
OverLimit(data) == StrOverhead + Len(data) > MaxBytes

\* data[: int(max_bytes)]
Cut(data) == SubSeq(data, 1, Min(MaxBytes, Len(data)))

\* the warning is made part of the payload
StdoutData_WithWarning(data) ==
  IF OverLimit(data) THEN Warning \o Cut(data) \o Marker ELSE data

\* ThreadSafeStdout: data = data[: int(max_bytes)] + " ... "
StdoutData(data) ==
  IF OverLimit(data) THEN Cut(data) \o Marker ELSE data

\* ThreadSafeStderr and ThreadSafeStdin: warning + data[: int(max_bytes)] + " ... "
StderrData(data) ==
  IF OverLimit(data) THEN Warning \o Cut(data) \o Marker ELSE data

\* ------------------------------------ ThreadSafeStdout._write_with_mimetype
\* assert cell_id is not None; isinstance(data, str); the size limit, with
\* the warning written to sys.stderr
StdoutWrite(t, data) ==
  /\ wcount' = [wcount EXCEPT ![t] = @ + 1]
  /\ arg' = [arg EXCEPT ![t] = data]
  /\ IF cell_id = None
       THEN /\ raised' = [raised EXCEPT ![t] = "AssertionError"]
            /\ pc' = [pc EXCEPT ![t] = RaisePc(t)]
            /\ UNCHANGED <<cur, stderr_log>>
       ELSE IF ~IsStr(data)
       THEN /\ raised' = [raised EXCEPT ![t] = "TypeError"]
            /\ pc' = [pc EXCEPT ![t] = RaisePc(t)]
            /\ UNCHANGED <<cur, stderr_log>>
       ELSE /\ raised' = [raised EXCEPT ![t] = "none"]
            /\ pc' = [pc EXCEPT ![t] = "so_append"]
            /\ stderr_log' = IF OverLimit(data)
                               THEN Append(stderr_log,
                                           [src |-> t, n |-> wcount[t] + 1, data |-> Warning])
                               ELSE stderr_log
            /\ cur' = [cur EXCEPT ![t] =
                         ConsoleMsg("STDOUT", None, t, wcount[t] + 1, StdoutData(data))]
  /\ UNCHANGED <<stream_lock, console_msg_cv, cv_waiters, console_msg_queue,
                 cell_id, redirect_console, pipe_kind, pipe_closed, qlen,
                 batch, rebinds, stopped, lock_order, sent>>
  /\ UNCHANGED <<input_queue, pushed, ret>>

\* appendleft in place of append
StdoutAppend_Left(t) ==
  /\ pc[t] = "so_append"
  /\ IF redirect_console
       THEN /\ console_msg_queue' =
                 <<[cur[t] EXCEPT !.cell_id = cell_id]>> \o console_msg_queue
            /\ pc' = [pc EXCEPT ![t] = "so_lock"]
            /\ raised' = raised
       ELSE /\ raised' = [raised EXCEPT ![t] = "AttributeError"]
            /\ pc' = [pc EXCEPT ![t] = RaisePc(t)]
            /\ console_msg_queue' = console_msg_queue
  /\ UNCHANGED <<cur, wcount, stream_lock, console_msg_cv, cv_waiters,
                 cell_id, redirect_console, pipe_kind, pipe_closed, qlen,
                 batch, rebinds, stopped, lock_order, sent>>
  /\ UNCHANGED <<wvars, ivars>>

\* self._stream.console_msg_queue.append(ConsoleMsg(...)), before the lock
StdoutAppend(t) ==
  /\ pc[t] = "so_append"
  /\ IF redirect_console
       THEN /\ console_msg_queue' =
                 Append(console_msg_queue, [cur[t] EXCEPT !.cell_id = cell_id])
            /\ pc' = [pc EXCEPT ![t] = "so_lock"]
            /\ raised' = raised
       ELSE \* no console_msg_queue attribute
            /\ raised' = [raised EXCEPT ![t] = "AttributeError"]
            /\ pc' = [pc EXCEPT ![t] = RaisePc(t)]
            /\ console_msg_queue' = console_msg_queue
  /\ UNCHANGED <<cur, wcount, stream_lock, console_msg_cv, cv_waiters,
                 cell_id, redirect_console, pipe_kind, pipe_closed, qlen,
                 batch, rebinds, stopped, lock_order, sent>>
  /\ UNCHANGED <<wvars, ivars>>

\* `with self._stream.console_msg_cv:` entered
StdoutLock(t) ==
  /\ pc[t] = "so_lock"
  /\ console_msg_cv = Free
  /\ console_msg_cv' = t
  /\ pc' = [pc EXCEPT ![t] = "so_locked"]
  /\ UNCHANGED <<cur, raised, wcount, stream_lock, cv_waiters,
                 console_msg_queue, cell_id, redirect_console, pipe_kind,
                 pipe_closed, qlen, batch, rebinds, stopped, lock_order, sent>>
  /\ UNCHANGED <<wvars, ivars>>

\* the notify is left out: a waiting drain worker is not woken
StdoutNotify_NoNotify(t) ==
  /\ pc[t] = "so_locked"
  /\ console_msg_cv' = Free
  /\ pc' = [pc EXCEPT ![t] = ReturnPc(t)]
  /\ UNCHANGED <<cur, raised, wcount, stream_lock, cv_waiters,
                 console_msg_queue, cell_id, redirect_console, pipe_kind,
                 pipe_closed, qlen, batch, rebinds, stopped, lock_order, sent>>
  /\ UNCHANGED <<wvars, ivars>>

\* the sink forwards the message itself through ThreadSafeStream.write
StdoutNotify_WriteThrough(t) ==
  /\ pc[t] = "so_locked"
  /\ cv_waiters' = Notify(cv_waiters)
  /\ console_msg_cv' = Free
  /\ pc' = [pc EXCEPT ![t] = "sw_lock"]
  /\ UNCHANGED <<cur, raised, wcount, stream_lock, console_msg_queue, cell_id,
                 redirect_console, pipe_kind, pipe_closed, qlen, batch,
                 rebinds, stopped, lock_order, sent>>
  /\ UNCHANGED <<wvars, ivars>>

\* console_msg_cv.notify(), the with statement's exit, return len(data)
StdoutNotify(t) ==
  /\ pc[t] = "so_locked"
  /\ cv_waiters' = Notify(cv_waiters)
  /\ console_msg_cv' = Free
  /\ pc' = [pc EXCEPT ![t] = ReturnPc(t)]
  /\ UNCHANGED <<cur, raised, wcount, stream_lock, console_msg_queue, cell_id,
                 redirect_console, pipe_kind, pipe_closed, qlen, batch,
                 rebinds, stopped, lock_order, sent>>
  /\ UNCHANGED <<wvars, ivars>>

\* ------------------------------------ ThreadSafeStderr._write_with_mimetype
\* assert cell_id is not None; isinstance(data, str); the size limit
StderrWrite(t, data) ==
  /\ wcount' = [wcount EXCEPT ![t] = @ + 1]
  /\ arg' = [arg EXCEPT ![t] = data]
  /\ IF cell_id = None
       THEN /\ raised' = [raised EXCEPT ![t] = "AssertionError"]
            /\ pc' = [pc EXCEPT ![t] = RaisePc(t)]
            /\ cur' = cur
       ELSE IF ~IsStr(data)
       THEN /\ raised' = [raised EXCEPT ![t] = "TypeError"]
            /\ pc' = [pc EXCEPT ![t] = RaisePc(t)]
            /\ cur' = cur
       ELSE IF ~redirect_console
       THEN \* no console_msg_cv attribute
            /\ raised' = [raised EXCEPT ![t] = "AttributeError"]
            /\ pc' = [pc EXCEPT ![t] = RaisePc(t)]
            /\ cur' = cur
       ELSE /\ raised' = [raised EXCEPT ![t] = "none"]
            /\ pc' = [pc EXCEPT ![t] = "se_lock"]
            /\ cur' = [cur EXCEPT ![t] =
                         ConsoleMsg("STDERR", None, t, wcount[t] + 1, StderrData(data))]
  /\ UNCHANGED <<stream_lock, console_msg_cv, cv_waiters, console_msg_queue,
                 cell_id, redirect_console, pipe_kind, pipe_closed, qlen,
                 batch, rebinds, stopped, lock_order, sent>>
  /\ UNCHANGED <<input_queue, pushed, ret, stderr_log>>

\* `with self._stream.console_msg_cv:` entered
StderrLock(t) ==
  /\ pc[t] = "se_lock"
  /\ console_msg_cv = Free
  /\ console_msg_cv' = t
  /\ pc' = [pc EXCEPT ![t] = "se_locked"]
  /\ UNCHANGED <<cur, raised, wcount, stream_lock, cv_waiters,
                 console_msg_queue, cell_id, redirect_console, pipe_kind,
                 pipe_closed, qlen, batch, rebinds, stopped, lock_order, sent>>
  /\ UNCHANGED <<wvars, ivars>>

\* append(ConsoleMsg(...)), notify(), the with statement's exit, return
StderrAppendNotify(t) ==
  /\ pc[t] = "se_locked"
  /\ console_msg_queue' =
       Append(console_msg_queue, [cur[t] EXCEPT !.cell_id = cell_id])
  /\ cv_waiters' = Notify(cv_waiters)
  /\ console_msg_cv' = Free
  /\ pc' = [pc EXCEPT ![t] = ReturnPc(t)]
  /\ UNCHANGED <<cur, raised, wcount, stream_lock, cell_id, redirect_console,
                 pipe_kind, pipe_closed, qlen, batch, rebinds, stopped,
                 lock_order, sent>>
  /\ UNCHANGED <<wvars, ivars>>

\* a producer thread calls write on one of the two sinks
ProducerStdout(t) ==
  /\ pc[t] = "idle"
  /\ Issued < MaxWrites
  /\ \E data \in Payloads : StdoutWrite(t, data)
  /\ UNCHANGED <<wvars, fwd_cells>>

ProducerStderr(t) ==
  /\ pc[t] = "idle"
  /\ Issued < MaxWrites
  /\ \E data \in Payloads : StderrWrite(t, data)
  /\ UNCHANGED <<wvars, fwd_cells>>

\* ------------------------------------------------- ThreadSafeStream.stop
\* the sentinel is not appended
StopAppend_NoSentinel ==
  /\ pc[Main] = "idle"
  /\ ~stopped
  /\ stopped' = TRUE
  /\ IF redirect_console
       THEN /\ console_msg_queue' = console_msg_queue
            /\ pc' = [pc EXCEPT ![Main] = "st_lock"]
       ELSE UNCHANGED <<console_msg_queue, pc>>
  /\ UNCHANGED <<cur, raised, wcount, stream_lock, console_msg_cv, cv_waiters,
                 cell_id, redirect_console, pipe_kind, pipe_closed, qlen,
                 batch, rebinds, lock_order, sent>>
  /\ UNCHANGED <<wvars, ivars>>

\* if self.redirect_console: self.console_msg_queue.append(None)
StopAppend ==
  /\ pc[Main] = "idle"
  /\ ~stopped
  /\ stopped' = TRUE
  /\ IF redirect_console
       THEN /\ console_msg_queue' = Append(console_msg_queue, Sentinel)
            /\ pc' = [pc EXCEPT ![Main] = "st_lock"]
       ELSE UNCHANGED <<console_msg_queue, pc>>
  /\ UNCHANGED <<cur, raised, wcount, stream_lock, console_msg_cv, cv_waiters,
                 cell_id, redirect_console, pipe_kind, pipe_closed, qlen,
                 batch, rebinds, lock_order, sent>>
  /\ UNCHANGED <<wvars, ivars>>

\* `with self.console_msg_cv:` entered
StopLock ==
  /\ pc[Main] = "st_lock"
  /\ console_msg_cv = Free
  /\ console_msg_cv' = Main
  /\ pc' = [pc EXCEPT ![Main] = "st_locked"]
  /\ UNCHANGED <<cur, raised, wcount, stream_lock, cv_waiters,
                 console_msg_queue, cell_id, redirect_console, pipe_kind,
                 pipe_closed, qlen, batch, rebinds, stopped, lock_order, sent>>
  /\ UNCHANGED <<wvars, ivars>>

\* self.console_msg_cv.notify() and the with statement's exit
StopNotify ==
  /\ pc[Main] = "st_locked"
  /\ cv_waiters' = Notify(cv_waiters)
  /\ console_msg_cv' = Free
  /\ pc' = [pc EXCEPT ![Main] = "idle"]
  /\ UNCHANGED <<cur, raised, wcount, stream_lock, console_msg_queue, cell_id,
                 redirect_console, pipe_kind, pipe_closed, qlen, batch,
                 rebinds, stopped, lock_order, sent>>
  /\ UNCHANGED <<wvars, ivars>>

\* the owner binds the stream to another cell, or to none
SetCellId(c) ==
  /\ pc[Main] \in {"idle", "body"}
  /\ rebinds < MaxRebind
  /\ c # cell_id
  /\ cell_id' = c
  /\ rebinds' = rebinds + 1
  /\ UNCHANGED <<pc, cur, raised, wcount, stream_lock, console_msg_cv,
                 cv_waiters, console_msg_queue, redirect_console, pipe_kind,
                 pipe_closed, qlen, batch, stopped, lock_order, sent>>
  /\ UNCHANGED <<wvars, ivars>>

\* ------------------------------------------------ the drain worker's contract
\* `with cv:` entered
WorkerLock ==
  /\ pc[Worker] = "w_lock"
  /\ console_msg_cv = Free
  /\ console_msg_cv' = Worker
  /\ pc' = [pc EXCEPT ![Worker] = "w_check"]
  /\ UNCHANGED <<cur, raised, wcount, stream_lock, cv_waiters,
                 console_msg_queue, cell_id, redirect_console, pipe_kind,
                 pipe_closed, qlen, batch, rebinds, stopped, lock_order, sent>>
  /\ UNCHANGED <<wvars, ivars>>

\* while the buffer is empty: cv.wait(), which releases the lock
WorkerWait ==
  /\ pc[Worker] = "w_check"
  /\ console_msg_queue = <<>>
  /\ cv_waiters' = cv_waiters \cup {Worker}
  /\ console_msg_cv' = Free
  /\ pc' = [pc EXCEPT ![Worker] = "w_wait"]
  /\ UNCHANGED <<cur, raised, wcount, stream_lock, console_msg_queue, cell_id,
                 redirect_console, pipe_kind, pipe_closed, qlen, batch,
                 rebinds, stopped, lock_order, sent>>
  /\ UNCHANGED <<wvars, ivars>>

\* notified: cv.wait() takes the lock again and returns
WorkerWake ==
  /\ pc[Worker] = "w_wait"
  /\ Worker \notin cv_waiters
  /\ console_msg_cv = Free
  /\ console_msg_cv' = Worker
  /\ pc' = [pc EXCEPT ![Worker] = "w_check"]
  /\ UNCHANGED <<cur, raised, wcount, stream_lock, cv_waiters,
                 console_msg_queue, cell_id, redirect_console, pipe_kind,
                 pipe_closed, qlen, batch, rebinds, stopped, lock_order, sent>>
  /\ UNCHANGED <<wvars, ivars>>

\* drain all currently queued entries, leave the with block
WorkerDrain ==
  /\ pc[Worker] = "w_check"
  /\ console_msg_queue # <<>>
  /\ batch' = console_msg_queue
  /\ console_msg_queue' = <<>>
  /\ console_msg_cv' = Free
  /\ pc' = [pc EXCEPT ![Worker] = "w_next"]
  /\ UNCHANGED <<cur, raised, wcount, stream_lock, cv_waiters, cell_id,
                 redirect_console, pipe_kind, pipe_closed, qlen, rebinds,
                 stopped, lock_order, sent>>
  /\ UNCHANGED <<wvars, ivars>>

\* deliver each entry via stream.write; exit on the sentinel
WorkerNext ==
  /\ pc[Worker] = "w_next"
  /\ IF batch = <<>>
       THEN /\ pc' = [pc EXCEPT ![Worker] = "w_lock"]
            /\ UNCHANGED <<batch, cur>>
       ELSE IF Head(batch) = Sentinel
       THEN /\ pc' = [pc EXCEPT ![Worker] = "w_done"]
            /\ batch' = <<>>
            /\ cur' = cur
       ELSE /\ pc' = [pc EXCEPT ![Worker] = "sw_lock"]
            /\ cur' = [cur EXCEPT ![Worker] = Head(batch)]
            /\ batch' = Tail(batch)
  /\ UNCHANGED <<raised, wcount, stream_lock, console_msg_cv, cv_waiters,
                 console_msg_queue, cell_id, redirect_console, pipe_kind,
                 pipe_closed, qlen, rebinds, stopped, lock_order, sent>>
  /\ UNCHANGED <<wvars, ivars>>

\* ------------------------------------------------------- the far end
\* the server process shuts down: the Connection breaks
PipeClose ==
  /\ pipe_kind = "conn"
  /\ ~pipe_closed
  /\ pipe_closed' = TRUE
  /\ UNCHANGED <<pc, cur, raised, wcount, stream_lock, console_msg_cv,
                 cv_waiters, console_msg_queue, cell_id, redirect_console,
                 pipe_kind, qlen, batch, rebinds, stopped, lock_order, sent>>
  /\ UNCHANGED <<wvars, ivars>>

\* the consumer takes one message off the QueuePipe's queue
ConsumerGet ==
  /\ pipe_kind = "queue"
  /\ qlen > 0
  /\ qlen' = qlen - 1
  /\ UNCHANGED <<pc, cur, raised, wcount, stream_lock, console_msg_cv,
                 cv_waiters, console_msg_queue, cell_id, redirect_console,
                 pipe_kind, pipe_closed, batch, rebinds, stopped, lock_order,
                 sent>>
  /\ UNCHANGED <<wvars, ivars>>

\* the messages with which pipe.send was entered, in order
Entered == [i \in 1..Len(sent) |-> sent[i].msg]

\* the messages the channel accepted: what the consumer sees, in order
Delivered ==
  LET ok == SelectSeq(sent, LAMBDA e : e.res = "ok")
  IN [i \in 1..Len(ok) |-> ok[i].msg]

\* ------------------------------------ ThreadSafeStdin._readline_with_prompt
\* the prompts a thread passes: "" (readline), a short one, one over the limit
Prompts == {<<>>, Text(1), Text(MaxBytes + 1)}

\* the reply the consumer gives to the prompt m
Reply(m) == [to |-> m.src, n |-> m.n]
NoReply == [to |-> None, n |-> 0]

\* assert cell_id is not None; isinstance(prompt, str); the size limit
ReadlineCall(t, prompt) ==
  /\ pc[t] = "idle"
  /\ Issued < MaxWrites
  /\ wcount' = [wcount EXCEPT ![t] = @ + 1]
  /\ arg' = [arg EXCEPT ![t] = prompt]
  /\ IF cell_id = None
       THEN /\ raised' = [raised EXCEPT ![t] = "AssertionError"]
            /\ UNCHANGED <<pc, cur>>
       ELSE IF ~IsStr(prompt)
       THEN /\ raised' = [raised EXCEPT ![t] = "TypeError"]
            /\ UNCHANGED <<pc, cur>>
       ELSE IF ~redirect_console
       THEN \* no console_msg_cv attribute
            /\ raised' = [raised EXCEPT ![t] = "AttributeError"]
            /\ UNCHANGED <<pc, cur>>
       ELSE /\ raised' = [raised EXCEPT ![t] = "none"]
            /\ pc' = [pc EXCEPT ![t] = "si_lock"]
            /\ cur' = [cur EXCEPT ![t] =
                         ConsoleMsg("STDIN", None, t, wcount[t] + 1, StderrData(prompt))]
  /\ UNCHANGED <<stream_lock, console_msg_cv, cv_waiters, console_msg_queue,
                 cell_id, redirect_console, pipe_kind, pipe_closed, qlen,
                 batch, rebinds, stopped, lock_order, sent>>
  /\ UNCHANGED <<input_queue, pushed, ret, stderr_log, fwd_cells>>
  /\ UNCHANGED wvars

\* `with self._stream.console_msg_cv:` entered
StdinLock(t) ==
  /\ pc[t] = "si_lock"
  /\ console_msg_cv = Free
  /\ console_msg_cv' = t
  /\ pc' = [pc EXCEPT ![t] = "si_locked"]
  /\ UNCHANGED <<cur, raised, wcount, stream_lock, cv_waiters,
                 console_msg_queue, cell_id, redirect_console, pipe_kind,
                 pipe_closed, qlen, batch, rebinds, stopped, lock_order, sent>>
  /\ UNCHANGED <<wvars, ivars>>

\* append(ConsoleMsg(STDIN, ...)), notify(), the with statement's exit
StdinAppendNotify(t) ==
  /\ pc[t] = "si_locked"
  /\ console_msg_queue' =
       Append(console_msg_queue, [cur[t] EXCEPT !.cell_id = cell_id])
  /\ cv_waiters' = Notify(cv_waiters)
  /\ console_msg_cv' = Free
  /\ pc' = [pc EXCEPT ![t] = "si_get"]
  /\ UNCHANGED <<cur, raised, wcount, stream_lock, cell_id, redirect_console,
                 pipe_kind, pipe_closed, qlen, batch, rebinds, stopped,
                 lock_order, sent>>
  /\ UNCHANGED <<wvars, ivars>>

\* the head of the queue is returned but left in the queue
StdinGet_Peek(t) ==
  /\ pc[t] = "si_get"
  /\ input_queue # <<>>
  /\ ret' = [ret EXCEPT ![t] = Head(input_queue)]
  /\ pc' = [pc EXCEPT ![t] = "idle"]
  /\ UNCHANGED <<cur, raised, wcount, stream_lock, console_msg_cv, cv_waiters,
                 console_msg_queue, cell_id, redirect_console, pipe_kind,
                 pipe_closed, qlen, batch, rebinds, stopped, lock_order, sent>>
  /\ UNCHANGED <<input_queue, pushed, arg, stderr_log, fwd_cells>>
  /\ UNCHANGED wvars

\* return self._stream.input_queue.get(): blocks while the queue is empty
StdinGet(t) ==
  /\ pc[t] = "si_get"
  /\ input_queue # <<>>
  /\ ret' = [ret EXCEPT ![t] = Head(input_queue)]
  /\ input_queue' = Tail(input_queue)
  /\ pc' = [pc EXCEPT ![t] = "idle"]
  /\ UNCHANGED <<cur, raised, wcount, stream_lock, console_msg_cv, cv_waiters,
                 console_msg_queue, cell_id, redirect_console, pipe_kind,
                 pipe_closed, qlen, batch, rebinds, stopped, lock_order, sent>>
  /\ UNCHANGED <<pushed, arg, stderr_log, fwd_cells>>
  /\ UNCHANGED wvars

\* the STDIN prompts the consumer has received, in order
PromptsSeen == SelectSeq(Delivered, LAMBDA m : m.stream = "STDIN")

\* the consumer puts its reply to the next unanswered prompt on input_queue
ConsumerPush ==
  /\ pushed < Len(PromptsSeen)
  /\ input_queue' = Append(input_queue, Reply(PromptsSeen[pushed + 1]))
  /\ pushed' = pushed + 1
  /\ UNCHANGED svars
  /\ UNCHANGED <<ret, arg, stderr_log, fwd_cells>>
  /\ UNCHANGED wvars

\* ------------------------------------------- calls with any kind of argument
\* what a producer may pass to a sink: short text, text of exactly the limit,
\* text over the limit, and something that is no str
SinkPayloads == {Text(1), Text(MaxBytes), Text(MaxBytes + 1), NotStr}

SinkCallStdout(t) ==
  /\ pc[t] = "idle"
  /\ Issued < MaxWrites
  /\ \E data \in SinkPayloads : StdoutWrite(t, data)
  /\ UNCHANGED <<wvars, fwd_cells>>

SinkCallStderr(t) ==
  /\ pc[t] = "idle"
  /\ Issued < MaxWrites
  /\ \E data \in SinkPayloads : StderrWrite(t, data)
  /\ UNCHANGED <<wvars, fwd_cells>>

\* ------------------------------------------------------------ descriptors
FDs == 0..(NumFds - 1)
Unset == 0 - 1       \* no such attribute / None
NoFd == Unset
fd == 0              \* Watcher.fd: the sink's _original_fd
read_fd == 1         \* Watcher.read_fd
write_fd == 2        \* Watcher.write_fd

\* the lowest descriptor that is not open, as os.dup, os.pipe and open pick
\* it; Unset when the table is full (EMFILE)
LowestFree ==
  IF \E n \in FDs : fdtab[n] = "closed"
    THEN CHOOSE n \in FDs :
           /\ fdtab[n] = "closed"
           /\ \A m \in FDs : fdtab[m] = "closed" => n <= m
    ELSE Unset

\* some descriptor still refers to the pipe's write end
HasWriter == \E n \in FDs : fdtab[n] = "pipe_w"

\* the stream state a Watcher step leaves alone
sframe == <<cur, wcount, stream_lock, console_msg_cv, cv_waiters,
            console_msg_queue, cell_id, redirect_console, pipe_kind,
            pipe_closed, qlen, batch, rebinds, stopped, lock_order, sent,
            ivars>>

\* ------------------------------------------------- bytes and data.decode()
\* "a" is a one-byte character; "L" "C" are the two bytes of one character
RawPayloads == {<<"a">>, <<"L", "C">>}
ReadSize == 2        \* os.read(fd, 1024), scaled down

\* the bytes of raw write k, each with the cell_id bound when it was written
Tagged(bytes, k) ==
  [i \in 1..Len(bytes) |-> [b |-> bytes[i], k |-> k, c |-> cell_id]]

RECURSIVE Decodable(_)
Decodable(bs) ==
  IF bs = <<>> THEN TRUE
  ELSE IF Head(bs).b = "a" THEN Decodable(Tail(bs))
  ELSE IF Head(bs).b = "L"
    THEN Len(bs) >= 2 /\ bs[2].b = "C" /\ Decodable(Tail(Tail(bs)))
  ELSE FALSE

RECURSIVE Decode(_)
Decode(bs) ==
  IF bs = <<>> THEN <<>>
  ELSE IF Head(bs).b = "a" THEN <<"a">> \o Decode(Tail(bs))
  ELSE <<"e'">> \o Decode(Tail(Tail(bs)))

Ids(bs) == {bs[i].k : i \in 1..Len(bs)}

\* the cell_id values under which the pipe's bytes among bs were written
CellsOf(bs) == {bs[i].c : i \in {j \in 1..Len(bs) : bs[j].k # 0}}

\* bytes of a file that is not the pipe
Foreign == <<[b |-> "a", k |-> 0, c |-> None]>>

\* ------------------------------------------- redirect and Watcher.start
\* redirect is entered; self.fd_dup = os.dup(self.fd)
StartDup ==
  /\ pc[Main] = "idle"
  /\ scopes < MaxScopes
  /\ LET n == LowestFree IN
       IF n = Unset
         THEN \* EMFILE: start raises, the finally clause runs pause
              /\ raised' = [raised EXCEPT ![Main] = "OSError"]
              /\ pc' = [pc EXCEPT ![Main] = "p_dup2"]
              /\ starts_ok' = FALSE
              /\ UNCHANGED <<fdtab, fd_dup, owned>>
         ELSE /\ fdtab' = [fdtab EXCEPT ![n] = fdtab[fd]]
              /\ fd_dup' = n
              /\ owned' = owned \cup {n}
              /\ starts_ok' = starts_ok
              /\ raised' = [raised EXCEPT ![Main] = "none"]
              /\ pc' = [pc EXCEPT ![Main] = "s_setfileno"]
  /\ UNCHANGED sframe
  /\ UNCHANGED <<wsink, fileno, should_exit, pipebuf, fdata, rfile,
                 stop_called, stop_ret, scopes, rawn, forwarded>>

\* self.standard_stream._set_fileno(self.fd_dup)
StartSetFileno ==
  /\ pc[Main] = "s_setfileno"
  /\ fileno' = fd_dup
  /\ pc' = [pc EXCEPT ![Main] = "s_dup2"]
  /\ UNCHANGED <<raised, sframe>>
  /\ UNCHANGED <<wsink, fdtab, fd_dup, should_exit, pipebuf, fdata, rfile,
                 stop_called, stop_ret, owned, starts_ok, scopes, rawn, forwarded>>

\* os.dup2(self.write_fd, self.fd); then the scope's body runs
StartDup2 ==
  /\ pc[Main] = "s_dup2"
  /\ IF fdtab[write_fd] = "closed"
       THEN \* EBADF
            /\ raised' = [raised EXCEPT ![Main] = "OSError"]
            /\ pc' = [pc EXCEPT ![Main] = "p_dup2"]
            /\ starts_ok' = FALSE
            /\ fdtab' = fdtab
       ELSE /\ fdtab' = [fdtab EXCEPT ![fd] = fdtab[write_fd]]
            /\ pc' = [pc EXCEPT ![Main] = "body"]
            /\ UNCHANGED <<raised, starts_ok>>
  /\ UNCHANGED sframe
  /\ UNCHANGED <<wsink, fd_dup, fileno, should_exit, pipebuf, fdata, rfile,
                 stop_called, stop_ret, owned, scopes, rawn, forwarded>>

\* the body of the with block ends, normally or with an exception
BodyExit ==
  /\ pc[Main] = "body"
  /\ \E exc \in {"none", "Exception"} :
       raised' = [raised EXCEPT ![Main] = exc]
  /\ pc' = [pc EXCEPT ![Main] = "p_dup2"]
  /\ UNCHANGED <<sframe, wvars>>

\* --------------------------------------------------------- Watcher.pause
\* os.close(self.fd_dup) is left out: the duplicate leaks
PauseClose_Leak ==
  /\ pc[Main] = "p_close"
  /\ pc' = [pc EXCEPT ![Main] = "p_setfileno"]
  /\ UNCHANGED <<raised, sframe, wvars>>

\* the finally clause: os.dup2(self.fd_dup, self.fd)
PauseDup2 ==
  /\ pc[Main] = "p_dup2"
  /\ IF fd_dup = Unset
       THEN \* AttributeError: no start has set fd_dup
            /\ raised' = [raised EXCEPT ![Main] = "AttributeError"]
            /\ pc' = [pc EXCEPT ![Main] = "idle"]
            /\ scopes' = scopes + 1
            /\ fdtab' = fdtab
       ELSE IF fdtab[fd_dup] = "closed"
       THEN \* EBADF
            /\ raised' = [raised EXCEPT ![Main] = "OSError"]
            /\ pc' = [pc EXCEPT ![Main] = "idle"]
            /\ scopes' = scopes + 1
            /\ fdtab' = fdtab
       ELSE /\ fdtab' = [fdtab EXCEPT ![fd] = fdtab[fd_dup]]
            /\ pc' = [pc EXCEPT ![Main] = "p_close"]
            /\ UNCHANGED <<raised, scopes>>
  /\ UNCHANGED sframe
  /\ UNCHANGED <<wsink, fd_dup, fileno, should_exit, pipebuf, fdata, rfile,
                 stop_called, stop_ret, owned, starts_ok, rawn, forwarded>>

\* os.close(self.fd_dup)
PauseClose ==
  /\ pc[Main] = "p_close"
  /\ IF fdtab[fd_dup] = "closed"
       THEN \* EBADF
            /\ raised' = [raised EXCEPT ![Main] = "OSError"]
            /\ pc' = [pc EXCEPT ![Main] = "idle"]
            /\ scopes' = scopes + 1
            /\ UNCHANGED <<fdtab, owned>>
       ELSE /\ fdtab' = [fdtab EXCEPT ![fd_dup] = "closed"]
            /\ owned' = owned \ {fd_dup}
            /\ pc' = [pc EXCEPT ![Main] = "p_setfileno"]
            /\ UNCHANGED <<raised, scopes>>
  /\ UNCHANGED sframe
  /\ UNCHANGED <<wsink, fd_dup, fileno, should_exit, pipebuf, fdata, rfile,
                 stop_called, stop_ret, starts_ok, rawn, forwarded>>

\* _set_fileno(None) is left out: the sink keeps the closed duplicate
PauseSetFileno_Keep ==
  /\ pc[Main] = "p_setfileno"
  /\ scopes' = scopes + 1
  /\ pc' = [pc EXCEPT ![Main] = "idle"]
  /\ UNCHANGED <<raised, sframe>>
  /\ UNCHANGED <<wsink, fdtab, fd_dup, fileno, should_exit, pipebuf, fdata,
                 rfile, stop_called, stop_ret, owned, starts_ok, rawn, forwarded>>

\* self.standard_stream._set_fileno(None); the scope is left
PauseSetFileno ==
  /\ pc[Main] = "p_setfileno"
  /\ fileno' = NoFd
  /\ scopes' = scopes + 1
  /\ pc' = [pc EXCEPT ![Main] = "idle"]
  /\ UNCHANGED <<raised, sframe>>
  /\ UNCHANGED <<wsink, fdtab, fd_dup, should_exit, pipebuf, fdata, rfile,
                 stop_called, stop_ret, owned, starts_ok, rawn, forwarded>>

\* ---------------------------------------------------------- Watcher.stop
\* os.close(self.write_fd)
WatcherStopCloseWrite ==
  /\ pc[Main] \in {"idle", "body"}
  /\ ~stop_called
  /\ stop_called' = TRUE
  /\ stop_ret' = pc[Main]
  /\ fdtab' = [fdtab EXCEPT ![write_fd] = "closed"]
  /\ owned' = owned \ {write_fd}
  /\ pc' = [pc EXCEPT ![Main] = "x_close_r"]
  /\ UNCHANGED <<raised, sframe>>
  /\ UNCHANGED <<wsink, fd_dup, fileno, should_exit, pipebuf, fdata, rfile,
                 starts_ok, scopes, rawn, forwarded>>

\* os.close(self.read_fd)
WatcherStopCloseRead ==
  /\ pc[Main] = "x_close_r"
  /\ fdtab' = [fdtab EXCEPT ![read_fd] = "closed"]
  /\ owned' = owned \ {read_fd}
  /\ pc' = [pc EXCEPT ![Main] = "x_set"]
  /\ UNCHANGED <<raised, sframe>>
  /\ UNCHANGED <<wsink, fd_dup, fileno, should_exit, pipebuf, fdata, rfile,
                 stop_called, stop_ret, starts_ok, scopes, rawn, forwarded>>

\* self._should_exit.set(); stop returns
WatcherStopSet ==
  /\ pc[Main] = "x_set"
  /\ should_exit' = TRUE
  /\ pc' = [pc EXCEPT ![Main] = stop_ret]
  /\ UNCHANGED <<raised, sframe>>
  /\ UNCHANGED <<wsink, fdtab, fd_dup, fileno, pipebuf, fdata, rfile,
                 stop_called, stop_ret, owned, starts_ok, scopes, rawn, forwarded>>

\* ---------------------------------------------------- _forward_os_stream
\* while not should_exit.is_set()
FwdCheck ==
  /\ pc[Fwd] = "f_check"
  /\ pc' = [pc EXCEPT ![Fwd] = IF should_exit THEN "f_done" ELSE "f_read"]
  /\ UNCHANGED <<raised, sframe, wvars>>

\* what a read of the pipe returns: at most ReadSize bytes
Chunk == SubSeq(pipebuf, 1, Min(ReadSize, Len(pipebuf)))
Rest == SubSeq(pipebuf, Min(ReadSize, Len(pipebuf)) + 1, Len(pipebuf))

\* data = os.read(fd, 1024) is called
FwdRead ==
  /\ pc[Fwd] = "f_read"
  /\ IF fdtab[read_fd] = "closed"
       THEN \* EBADF, silenced by the except clause: the thread ends
            /\ raised' = [raised EXCEPT ![Fwd] = "OSError"]
            /\ pc' = [pc EXCEPT ![Fwd] = "f_done"]
            /\ UNCHANGED <<pipebuf, fdata, rfile>>
       ELSE IF fdtab[read_fd] = "pipe_r"
       THEN IF pipebuf # <<>>
              THEN /\ fdata' = Chunk
                   /\ pipebuf' = Rest
                   /\ pc' = [pc EXCEPT ![Fwd] = "f_write"]
                   /\ UNCHANGED <<raised, rfile>>
              ELSE IF ~HasWriter
              THEN \* end of file: if not data: break
                   /\ pc' = [pc EXCEPT ![Fwd] = "f_done"]
                   /\ UNCHANGED <<raised, pipebuf, fdata, rfile>>
              ELSE \* the read blocks, on the pipe it was called on
                   /\ rfile' = "pipe_r"
                   /\ pc' = [pc EXCEPT ![Fwd] = "f_inread"]
                   /\ UNCHANGED <<raised, pipebuf, fdata>>
       ELSE \* the number now names another open file: the read returns its
            \* bytes, its end, an error, or blocks on it
            \E out \in {"data", "eof", "error", "block"} :
              /\ fdata' = IF out = "data" THEN Foreign ELSE fdata
              /\ raised' = [raised EXCEPT ![Fwd] = IF out = "error" THEN "OSError" ELSE @]
              /\ rfile' = IF out = "block" THEN fdtab[read_fd] ELSE rfile
              /\ pc' = [pc EXCEPT ![Fwd] =
                          IF out = "data" THEN "f_write"
                          ELSE IF out = "block" THEN "f_inread" ELSE "f_done"]
              /\ pipebuf' = pipebuf
  /\ UNCHANGED sframe
  /\ UNCHANGED <<wsink, fdtab, fd_dup, fileno, should_exit, stop_called,
                 stop_ret, owned, starts_ok, scopes, rawn, forwarded>>

\* the blocked os.read returns: bytes arrived, or the last writer is gone
FwdReadReturn ==
  /\ pc[Fwd] = "f_inread"
  /\ rfile = "pipe_r"
  /\ \/ /\ pipebuf # <<>>
        /\ fdata' = Chunk
        /\ pipebuf' = Rest
        /\ pc' = [pc EXCEPT ![Fwd] = "f_write"]
     \/ /\ pipebuf = <<>>
        /\ ~HasWriter
        /\ pc' = [pc EXCEPT ![Fwd] = "f_done"]
        /\ UNCHANGED <<pipebuf, fdata>>
  /\ UNCHANGED <<raised, sframe>>
  /\ UNCHANGED <<wsink, fdtab, fd_dup, fileno, should_exit, rfile, stop_called,
                 stop_ret, owned, starts_ok, scopes, rawn, forwarded>>

\* standard_stream.write(data.decode()); any exception ends the thread
FwdWrite ==
  /\ pc[Fwd] = "f_write"
  /\ fdata' = <<>>
  /\ IF ~Decodable(fdata)
       THEN \* UnicodeDecodeError
            /\ raised' = [raised EXCEPT ![Fwd] = "UnicodeDecodeError"]
            /\ pc' = [pc EXCEPT ![Fwd] = "f_done"]
            /\ forwarded' = forwarded
            /\ UNCHANGED sframe
       ELSE /\ IF wsink = "STDOUT"
                 THEN StdoutWrite(Fwd, Decode(fdata))
                 ELSE StderrWrite(Fwd, Decode(fdata))
            /\ forwarded' = IF cell_id # None
                              THEN forwarded \cup (Ids(fdata) \ {0})
                              ELSE forwarded
            /\ fwd_cells' = IF cell_id # None
                              THEN Append(fwd_cells, CellsOf(fdata))
                              ELSE fwd_cells
  /\ UNCHANGED <<wsink, fdtab, fd_dup, fileno, should_exit, pipebuf, rfile,
                 stop_called, stop_ret, owned, starts_ok, scopes, rawn>>

\* ------------------------------------------------- the rest of the process
\* code that bypasses the sink writes bytes to the watched descriptor
RawWrite(bytes) ==
  /\ fdtab[fd] = "pipe_w"
  /\ rawn < MaxRaw
  /\ rawn' = rawn + 1
  /\ pipebuf' = pipebuf \o Tagged(bytes, rawn + 1)
  /\ UNCHANGED <<pc, raised, sframe>>
  /\ UNCHANGED <<wsink, fdtab, fd_dup, fileno, should_exit, fdata, rfile,
                 stop_called, stop_ret, owned, starts_ok, scopes, forwarded>>

\* other code opens a file: it gets the lowest free descriptor
EnvOpen ==
  /\ LowestFree # Unset
  /\ fdtab' = [fdtab EXCEPT ![LowestFree] = "other"]
  /\ UNCHANGED <<pc, raised, sframe>>
  /\ UNCHANGED <<wsink, fd_dup, fileno, should_exit, pipebuf, fdata, rfile,
                 stop_called, stop_ret, owned, starts_ok, scopes, rawn, forwarded>>

\* other code closes one of its files
EnvClose(n) ==
  /\ n # fd
  /\ n \notin owned
  /\ fdtab[n] = "other"
  /\ fdtab' = [fdtab EXCEPT ![n] = "closed"]
  /\ UNCHANGED <<pc, raised, sframe>>
  /\ UNCHANGED <<wsink, fd_dup, fileno, should_exit, pipebuf, fdata, rfile,
                 stop_called, stop_ret, owned, starts_ok, scopes, rawn, forwarded>>

\* the state after Watcher.__init__ for the sink `sink`
InitWatcher(sink) ==
  /\ wsink = sink
  /\ fdtab = [n \in FDs |->
                IF n = fd THEN "orig"
                ELSE IF n = read_fd THEN "pipe_r"
                ELSE IF n = write_fd THEN "pipe_w" ELSE "closed"]
  /\ fd_dup = Unset
  /\ fileno = NoFd
  /\ should_exit = FALSE
  /\ pipebuf = <<>>
  /\ fdata = <<>>
  /\ rfile = "none"
  /\ stop_called = FALSE
  /\ stop_ret = "idle"
  /\ owned = {read_fd, write_fd}
  /\ starts_ok = TRUE
  /\ scopes = 0
  /\ rawn = 0
  /\ forwarded = {}

\* ------------------------------------------------------ specification
\* the state after ThreadSafeStream.__init__(pipe, input_queue, redirect, cell)
InitStream(redirect, cell, kind, fwdpc) ==
  /\ redirect_console = redirect
  /\ pc = [t \in Threads |->
             IF t = Worker THEN (IF redirect THEN "w_lock" ELSE "absent")
             ELSE IF t = Fwd THEN fwdpc ELSE "idle"]
  /\ cur = [t \in Threads |-> Sentinel]
  /\ raised = [t \in Threads |-> "none"]
  /\ wcount = [t \in Threads |-> 0]
  /\ stream_lock = Free
  /\ console_msg_cv = Free
  /\ cv_waiters = {}
  /\ console_msg_queue = <<>>
  /\ cell_id = cell
  /\ pipe_kind = kind
  /\ pipe_closed = FALSE
  /\ qlen = 0
  /\ batch = <<>>
  /\ rebinds = 0
  /\ stopped = FALSE
  /\ lock_order = <<>>
  /\ sent = <<>>
  /\ input_queue = <<>>
  /\ pushed = 0
  /\ ret = [t \in Threads |-> NoReply]
  /\ arg = [t \in Threads |-> <<>>]
  /\ stderr_log = <<>>
  /\ fwd_cells = <<>>

\* Sinks, buffer, drain worker and stop, over a Connection
Init ==
  /\ \E redirect \in BOOLEAN, cell \in {None, "c1"} :
       InitStream(redirect, cell, "conn", "f_inread")
  /\ InitWatcher("STDOUT")

Next ==
  \/ \E t \in Producers : ProducerStdout(t)
  \/ \E t \in Producers : StdoutAppend(t)
  \/ \E t \in Producers : StdoutLock(t)
  \/ \E t \in Producers : StdoutNotify(t)
  \/ \E t \in Producers : ProducerStderr(t)
  \/ \E t \in Producers : StderrLock(t)
  \/ \E t \in Producers : StderrAppendNotify(t)
  \/ StreamLockAcquire(Worker)
  \/ PipeSend(Worker)
  \/ StreamLockRelease(Worker)
  \/ StopAppend
  \/ StopLock
  \/ StopNotify
  \/ WorkerLock
  \/ WorkerWait
  \/ WorkerWake
  \/ WorkerDrain
  \/ WorkerNext
  \/ PipeClose

Spec == Init /\ [][Next]_vars

\* ThreadSafeStream.write called directly by several threads, over either pipe
InitSend ==
  /\ \E kind \in {"conn", "queue"} : InitStream(FALSE, None, kind, "f_inread")
  /\ InitWatcher("STDOUT")

NextSend ==
  \/ \E t \in Producers : DirectWrite(t)
  \/ \E t \in Producers : StreamLockAcquire(t)
  \/ \E t \in Producers : PipeSend(t)
  \/ \E t \in Producers : StreamLockRelease(t)
  \/ PipeClose
  \/ ConsumerGet

SpecSend == InitSend /\ [][NextSend]_vars

\* The Watcher's descriptors: redirect scopes and stop of the owner, and the
\* descriptors other code opens and closes meanwhile
InitW ==
  /\ InitStream(TRUE, "c1", "conn", "f_inread")
  /\ InitWatcher("STDOUT")

NextW ==
  \/ StartDup
  \/ StartSetFileno
  \/ StartDup2
  \/ BodyExit
  \/ PauseDup2
  \/ PauseClose
  \/ PauseSetFileno
  \/ WatcherStopCloseWrite
  \/ WatcherStopCloseRead
  \/ WatcherStopSet
  \/ EnvOpen
  \/ \E n \in FDs : EnvClose(n)

SpecW == InitW /\ [][NextW]_vars

\* Forwarding: raw writes to the watched descriptor, the forwarding thread
\* and its sink writes, while the owner runs redirect scopes, rebinds
\* cell_id and stops the Watcher
InitF ==
  /\ \E cell \in {None, "c1"} : InitStream(TRUE, cell, "conn", "f_check")
  /\ \E sink \in {"STDOUT", "STDERR"} : InitWatcher(sink)

NextF ==
  \/ StartDup
  \/ StartSetFileno
  \/ StartDup2
  \/ BodyExit
  \/ PauseDup2
  \/ PauseClose
  \/ PauseSetFileno
  \/ WatcherStopCloseWrite
  \/ WatcherStopCloseRead
  \/ WatcherStopSet
  \/ \E c \in Cells \cup {None} : SetCellId(c)
  \/ FwdCheck
  \/ FwdRead
  \/ FwdReadReturn
  \/ FwdWrite
  \/ StdoutAppend(Fwd)
  \/ StdoutLock(Fwd)
  \/ StdoutNotify(Fwd)
  \/ StderrLock(Fwd)
  \/ StderrAppendNotify(Fwd)
  \/ \E bytes \in RawPayloads : RawWrite(bytes)

SpecF == InitF /\ [][NextF]_vars

\* read-line calls of one thread, the drain worker and the consumer that
\* answers the prompts it receives
InitIn ==
  /\ InitStream(TRUE, "c1", "conn", "f_inread")
  /\ InitWatcher("STDOUT")

DrainNext ==
  \/ StreamLockAcquire(Worker)
  \/ PipeSend(Worker)
  \/ StreamLockRelease(Worker)
  \/ WorkerLock
  \/ WorkerWait
  \/ WorkerWake
  \/ WorkerDrain
  \/ WorkerNext
  \/ ConsumerPush
  \/ PipeClose

NextIn1 ==
  \/ \E prompt \in Prompts : ReadlineCall("p1", prompt)
  \/ StdinLock("p1")
  \/ StdinAppendNotify("p1")
  \/ StdinGet("p1")
  \/ DrainNext

SpecIn1 == InitIn /\ [][NextIn1]_vars

\* the reading thread is scheduled
FairIn1 ==
  /\ SpecIn1
  /\ WF_vars(StdinLock("p1"))
  /\ WF_vars(StdinAppendNotify("p1"))
  /\ WF_vars(StdinGet("p1"))

\* read-line calls of several threads at once
NextIn ==
  \/ \E t \in Producers, prompt \in Prompts : ReadlineCall(t, prompt)
  \/ \E t \in Producers : StdinLock(t)
  \/ \E t \in Producers : StdinAppendNotify(t)
  \/ \E t \in Producers : StdinGet(t)
  \/ DrainNext

SpecIn == InitIn /\ [][NextIn]_vars

\* the checks and the size limit of the three sinks: calls with any
\* argument, with and without a cell bound; no drain worker, no consumer
InitT ==
  /\ \E cell \in {None, "c1"} : InitStream(TRUE, cell, "conn", "f_inread")
  /\ InitWatcher("STDOUT")

NextT ==
  \/ \E t \in Producers : SinkCallStdout(t)
  \/ \E t \in Producers : StdoutAppend(t)
  \/ \E t \in Producers : StdoutLock(t)
  \/ \E t \in Producers : StdoutNotify(t)
  \/ \E t \in Producers : SinkCallStderr(t)
  \/ \E t \in Producers : StderrLock(t)
  \/ \E t \in Producers : StderrAppendNotify(t)
  \/ \E t \in Producers, prompt \in Prompts \cup {NotStr} : ReadlineCall(t, prompt)
  \/ \E t \in Producers : StdinLock(t)
  \/ \E t \in Producers : StdinAppendNotify(t)
  \/ \E c \in Cells \cup {None} : SetCellId(c)

SpecT == InitT /\ [][NextT]_vars

\* weak fairness of the steps of direct writes: every thread is scheduled
FairSend ==
  /\ SpecSend
  /\ \A t \in Producers :
       /\ WF_vars(StreamLockAcquire(t))
       /\ WF_vars(PipeSend(t))
       /\ WF_vars(StreamLockRelease(t))

\* ------------------------------------------------------------- properties
InWrite(t) == pc[t] \in {"sw_lock", "sw_send", "sw_unlock"}
InPipeSend(t) == pc[t] = "sw_send"

\* C1: ThreadSafeStream.write is mutually exclusive: at most one thread is
\* inside pipe.send (or between send and the release of stream_lock), and
\* the messages reach pipe.send in the order their callers acquired
\* stream_lock.
C1_WriteMutualExclusion ==
  /\ Cardinality({t \in Threads : pc[t] \in {"sw_send", "sw_unlock"}}) <= 1
  /\ \A t \in Threads : pc[t] \in {"sw_send", "sw_unlock"} => stream_lock = t
  /\ IF \E t \in Threads : InPipeSend(t)
       THEN \E t \in Threads :
              InPipeSend(t) /\ lock_order = Append(Entered, cur[t])
       ELSE lock_order = Entered

\* two threads contend: one is inside pipe.send, the other waits for the lock
C1_Witness ==
  \E t, u \in Producers :
    /\ t # u
    /\ InPipeSend(t)
    /\ pc[u] = "sw_lock"
    /\ Len(sent) >= 1

\* C2 (as claimed): whatever failure pipe.send raises, write swallows it and
\* returns normally: no call of write ever ends with an exception in the
\* calling thread.
C2_WriteNeverRaises ==
  \A t \in Producers : raised[t] = "none"

\* C3: stream_lock is released on every exit path of write, also when
\* pipe.send failed: no thread outside write holds it, and every write call
\* waiting for the lock reaches pipe.send.
C3_LockReleasedOnEveryExit ==
  /\ [](\A t \in Threads : ~(pc[t] \in {"sw_send", "sw_unlock"}) => stream_lock # t)
  /\ \A t \in Producers : (pc[t] = "sw_lock") ~> InPipeSend(t)

\* a write against a closed or full transport has finished, and a later
\* write is inside pipe.send
C3_Witness ==
  /\ Len(sent) >= 1
  /\ sent[1].res # "ok"
  /\ \E t \in Producers : InPipeSend(t)

\* Weak fairness of every step of the producers, of stop and of the drain
\* worker, except pipe.send: the channel may be slow or block for ever.
FairSpec ==
  /\ Spec
  /\ \A t \in Producers :
       /\ WF_vars(StdoutAppend(t))
       /\ WF_vars(StdoutLock(t))
       /\ WF_vars(StdoutNotify(t))
       /\ WF_vars(StderrLock(t))
       /\ WF_vars(StderrAppendNotify(t))
  /\ WF_vars(StopLock)
  /\ WF_vars(StopNotify)
  /\ WF_vars(WorkerLock)
  /\ WF_vars(WorkerWait)
  /\ WF_vars(WorkerWake)
  /\ WF_vars(WorkerDrain)
  /\ WF_vars(WorkerNext)
  /\ WF_vars(StreamLockAcquire(Worker))
  /\ WF_vars(StreamLockRelease(Worker))

\* every message appended so far that was not dropped, oldest first: those
\* handed to pipe.send, the one the worker is about to send, the worker's
\* batch, the buffer
Flow ==
  Entered
    \o (IF pc[Worker] = "sw_lock" THEN <<cur[Worker]>> ELSE <<>>)
    \o batch \o console_msg_queue

\* the calls of one thread on one sink appear in q in the order of the calls
InCallOrder(q) ==
  \A i, j \in 1..Len(q) :
    (i < j /\ q[i].src = q[j].src /\ q[i].stream = q[j].stream
       /\ q[i].stream \in {"STDOUT", "STDERR"})
      => q[i].n < q[j].n

\* C4: per-thread FIFO: the ConsoleMsgs of one thread's writes to one sink
\* are appended to console_msg_queue, and delivered to the consumer by the
\* drain worker, in the order the writes were issued, whatever other
\* producers do.
C4_PerThreadFifo ==
  /\ InCallOrder(Flow)
  /\ InCallOrder(Delivered)

\* the consumer has received two writes of one thread to one sink, and a
\* write of another thread between them
C4_Witness ==
  /\ Len(Delivered) = 3
  /\ Delivered[1].src = Delivered[3].src
  /\ Delivered[1].stream = Delivered[3].stream
  /\ Delivered[2].src # Delivered[1].src

\* C5 (as claimed): every step that changes console_msg_queue, and every
\* notify of console_msg_cv, is taken by a thread that holds console_msg_cv.
C5_BufferMutatedUnderLock ==
  [][\A t \in Threads :
       (/\ pc'[t] # pc[t]
        /\ \/ console_msg_queue' # console_msg_queue
           \/ pc[t] \in {"so_locked", "se_locked", "st_locked"})
         => console_msg_cv = t]_vars

InSinkWrite(t) ==
  pc[t] \in {"so_append", "so_lock", "so_locked", "se_lock", "se_locked"}

\* C6: a sink write never blocks on the consumer: it never takes stream_lock
\* and never calls pipe.send, whoever holds console_msg_cv is neither inside
\* nor waiting for ThreadSafeStream.write, and the write completes even when
\* pipe.send never returns.
C6_SinkWriteNeverBlocks ==
  /\ [](\A t \in Producers : ~InWrite(t) /\ stream_lock # t)
  /\ [](console_msg_cv # Free => ~InWrite(console_msg_cv))
  /\ \A t \in Producers : InSinkWrite(t) ~> (pc[t] = "idle")

\* a producer is in a sink write while the drain worker is inside pipe.send
\* and the channel is closed
C6_Witness ==
  \E t \in Producers :
    /\ InSinkWrite(t)
    /\ InPipeSend(Worker)
    /\ pipe_closed

\* weak fairness of the forwarding thread's steps: the thread is scheduled
FairF ==
  /\ SpecF
  /\ WF_vars(FwdCheck)
  /\ WF_vars(FwdRead)
  /\ WF_vars(FwdReadReturn)
  /\ WF_vars(FwdWrite)
  /\ WF_vars(StdoutAppend(Fwd))
  /\ WF_vars(StdoutLock(Fwd))
  /\ WF_vars(StdoutNotify(Fwd))
  /\ WF_vars(StderrLock(Fwd))
  /\ WF_vars(StderrAppendNotify(Fwd))

\* the descriptor table right after Watcher.__init__
InitTab ==
  [n \in FDs |->
     IF n = fd THEN "orig"
     ELSE IF n = read_fd THEN "pipe_r"
     ELSE IF n = write_fd THEN "pipe_w" ELSE "closed"]

\* C7 (as claimed): whenever a redirect scope has exited, by whatever path,
\* the watched descriptor refers to its original destination, not to the
\* pipe or anything else.
C7_RedirectRestoresFd ==
  (pc[Main] = "idle" /\ scopes >= 1) => fdtab[fd] = "orig"

\* C8 (as claimed, the Watcher not being stopped): every chunk written to
\* the watched descriptor while it refers to the pipe is eventually passed
\* to the sink's write, also after an earlier chunk made decode or the
\* sink's write raise.
C8_EveryChunkForwarded ==
  \A k \in 1..MaxRaw :
    (rawn >= k) ~> (k \in forwarded \/ stop_called)

\* two raw writes made in a scope have both been forwarded as sink writes
\* and the forwarding thread is still running
C8_Witness ==
  /\ forwarded = {1, 2}
  /\ Len(console_msg_queue) >= 1
  /\ pc[Fwd] # "f_done"

\* C9: after each pause of a start/pause cycle (every start so far returned
\* normally, stop was not called) the watched descriptor refers to the
\* original destination, the backing duplicate is closed, and every
\* descriptor is as it was after construction, but for those other code
\* opened meanwhile.
C9_CycleLeavesNoDescriptor ==
  (pc[Main] = "idle" /\ scopes >= 1 /\ starts_ok /\ ~stop_called)
    => /\ fdtab[fd] = "orig"
       /\ fd_dup \notin owned
       /\ owned = {read_fd, write_fd}
       /\ \A n \in FDs : fdtab[n] = InitTab[n] \/ fdtab[n] = "other"

\* two start/pause cycles are done, none of them failed
C9_Witness ==
  /\ pc[Main] = "idle"
  /\ scopes >= 2
  /\ starts_ok
  /\ ~stop_called
  /\ fdtab = InitTab

\* C10 (as claimed): when Watcher.stop returns, no descriptor of the Watcher
\* (pipe read end, pipe write end, backing duplicate) is open, and from then
\* on the forwarding thread calls the sink's write no more.
C10_StopEndsForwarding ==
  [][/\ (~should_exit /\ should_exit') =>
          /\ owned' = {}
          /\ \A n \in FDs : fdtab'[n] \notin {"pipe_r", "pipe_w"}
     /\ should_exit => ~(pc[Fwd] = "f_write" /\ pc'[Fwd] # "f_write")]_vars

\* C11: a read-line call with prompt P appends exactly one STDIN ConsoleMsg
\* carrying P (cut to the size limit, with the warning, when P is over it)
\* and notifies the condition before it pulls from input_queue; it returns
\* only when the queue holds a reply, takes exactly one item off it, and what
\* it returns is the consumer's reply to this very prompt; once a reply is
\* there the call returns.
C11_ReadlineRoundTrip ==
  /\ [][\A t \in Producers :
          pc'[t] # pc[t] =>
            IF pc[t] = "si_locked"
              THEN /\ console_msg_queue' =
                        Append(console_msg_queue,
                               ConsoleMsg("STDIN", cell_id, t, wcount[t], StderrData(arg[t])))
                   /\ cv_waiters' = Notify(cv_waiters)
                   /\ input_queue' = input_queue
                   /\ pc'[t] = "si_get"
            ELSE IF pc[t] = "si_get"
              THEN /\ input_queue # <<>>
                   /\ input_queue' = Tail(input_queue)
                   /\ ret'[t] = Reply(cur[t])
                   /\ pc'[t] = "idle"
            ELSE /\ console_msg_queue' = console_msg_queue
                 /\ input_queue' = input_queue]_vars
  /\ \A t \in Producers :
       (pc[t] = "si_get" /\ input_queue # <<>>) ~> (pc[t] = "idle")

\* one thread has made two read-line calls and got the reply to its second
\* prompt
C11_Witness ==
  /\ pc["p1"] = "idle"
  /\ wcount["p1"] = 2
  /\ pushed = 2
  /\ ret["p1"] = [to |-> "p1", n |-> 2]

\* C12 (as claimed): with several read-line calls outstanding and the
\* consumer replying to the prompts in the order they were appended, every
\* call returns the reply to its own prompt, and there is never more than one
\* reply per prompt.
C12_PromptOrderReplies ==
  /\ \A t \in Producers :
       (pc[t] = "idle" /\ ret[t] # NoReply) => ret[t].to = t
  /\ pushed <= Len(PromptsSeen)

\* the data starts with the truncation warning
HasWarning(data) ==
  Len(data) >= Len(Warning) /\ SubSeq(data, 1, Len(Warning)) = Warning

\* writes to sys.stderr made by call n of thread t
ErrWrites(t, n) ==
  {i \in DOMAIN stderr_log : stderr_log[i].src = t /\ stderr_log[i].n = n}

\* the ConsoleMsgs in the buffer that call n of thread t appended
Emitted(t, n) ==
  {i \in DOMAIN console_msg_queue :
     console_msg_queue[i].src = t /\ console_msg_queue[i].n = n}

\* C13 (as claimed): the ConsoleMsg a write to ThreadSafeStdout or
\* ThreadSafeStderr emits for a payload longer than the limit M has a data
\* field of at most M plus the marker's length, and exactly one truncation
\* warning is to be seen for the write.
C13_SizeBound ==
  \A t \in Producers : \A i \in Emitted(t, wcount[t]) :
    LET m == console_msg_queue[i] IN
      (m.stream \in {"STDOUT", "STDERR"} /\ Len(arg[t]) > MaxBytes)
        => /\ Len(m.data) <= MaxBytes + Len(Marker)
           /\ Cardinality(ErrWrites(t, m.n))
                + (IF HasWarning(m.data) THEN 1 ELSE 0) = 1

\* C14: a sink write or a read-line call made while cell_id is None, or with
\* an argument that is no str, raises in the caller at once, and leaves the
\* buffer, the condition, the input queue, the channel and sys.stderr as
\* they were.
C14_ContractViolationNoEffect ==
  [][\A t \in Producers :
       (wcount'[t] # wcount[t] /\ (cell_id = None \/ arg'[t] = NotStr))
         => /\ raised'[t] \in {"AssertionError", "TypeError"}
            /\ pc'[t] = "idle"
            /\ UNCHANGED <<console_msg_queue, console_msg_cv, cv_waiters,
                           input_queue, sent, qlen, stderr_log>>]_vars

\* one call failed on its argument and one on the missing cell, while the
\* buffer holds a message
C14_Witness ==
  /\ \E t, u \in Producers :
       raised[t] = "TypeError" /\ raised[u] = "AssertionError"
  /\ console_msg_queue # <<>>

\* C17: a write over the limit to ThreadSafeStderr appends one ConsoleMsg
\* whose data is the warning, the cut payload and the marker, and writes
\* nothing to sys.stderr; a write over the limit to ThreadSafeStdout writes
\* the warning to sys.stderr, once and before it appends, and appends one
\* ConsoleMsg whose data is the cut payload and the marker, without the
\* warning.
C17_TruncationPerSink ==
  \A t \in Producers :
    OverLimit(arg[t]) =>
      /\ \A i \in Emitted(t, wcount[t]) :
           LET m == console_msg_queue[i] IN
             /\ Cardinality(Emitted(t, wcount[t])) = 1
             /\ m.stream = "STDERR" =>
                  /\ m.data = Warning \o Cut(arg[t]) \o Marker
                  /\ ErrWrites(t, m.n) = {}
             /\ m.stream = "STDOUT" =>
                  /\ m.data = Cut(arg[t]) \o Marker
                  /\ ~HasWarning(m.data)
                  /\ Cardinality(ErrWrites(t, m.n)) = 1
      /\ pc[t] = "so_append" =>
           /\ Cardinality(ErrWrites(t, wcount[t])) = 1
           /\ stderr_log[Len(stderr_log)].data = Warning
           /\ Emitted(t, wcount[t]) = {}

\* the buffer holds the message of an over-limit write to each of the sinks
C17_Witness ==
  \E t, u \in Producers :
    /\ t # u
    /\ Len(arg[t]) > MaxBytes /\ Len(arg[u]) > MaxBytes
    /\ \E i \in Emitted(t, wcount[t]) : console_msg_queue[i].stream = "STDOUT"
    /\ \E i \in Emitted(u, wcount[u]) : console_msg_queue[i].stream = "STDERR"

\* C15: with redirect_console true a call of ThreadSafeStream.stop appends
\* one sentinel to the buffer, then notifies the condition once under its
\* lock, and returns, changing nothing else, even when the drain worker never
\* gets out of pipe.send; with redirect_console false it changes nothing.
C15_StopEffect ==
  /\ [][(pc'[Main] # pc[Main] \/ stopped' # stopped) =>
          IF pc[Main] = "idle"
            THEN IF redirect_console
                   THEN /\ console_msg_queue' = Append(console_msg_queue, Sentinel)
                        /\ pc'[Main] = "st_lock"
                        /\ UNCHANGED <<console_msg_cv, cv_waiters, stream_lock,
                                       batch, sent, cell_id, input_queue>>
                   ELSE UNCHANGED <<pc, cur, raised, wcount, stream_lock,
                                    console_msg_cv, cv_waiters, console_msg_queue,
                                    cell_id, redirect_console, pipe_kind,
                                    pipe_closed, qlen, batch, rebinds,
                                    lock_order, sent, wvars, ivars>>
          ELSE IF pc[Main] = "st_lock"
            THEN /\ console_msg_cv = Free
                 /\ UNCHANGED <<console_msg_queue, cv_waiters>>
          ELSE /\ console_msg_cv = Main
               /\ cv_waiters' = Notify(cv_waiters)
               /\ console_msg_queue' = console_msg_queue
               /\ pc'[Main] = "idle"]_vars
  /\ (pc[Main] = "st_lock") ~> (pc[Main] = "idle")

\* stop has returned while the drain worker is still inside pipe.send
C15_Witness ==
  /\ redirect_console
  /\ stopped
  /\ pc[Main] = "idle"
  /\ InPipeSend(Worker)

\* Sinks, buffer, drain worker and stop over a channel that stays open
InitDrain ==
  /\ InitStream(TRUE, "c1", "conn", "f_inread")
  /\ InitWatcher("STDOUT")

NextDrain ==
  \/ \E t \in Producers : ProducerStdout(t)
  \/ \E t \in Producers : StdoutAppend(t)
  \/ \E t \in Producers : StdoutLock(t)
  \/ \E t \in Producers : StdoutNotify(t)
  \/ \E t \in Producers : ProducerStderr(t)
  \/ \E t \in Producers : StderrLock(t)
  \/ \E t \in Producers : StderrAppendNotify(t)
  \/ StreamLockAcquire(Worker)
  \/ PipeSend(Worker)
  \/ StreamLockRelease(Worker)
  \/ StopAppend
  \/ StopLock
  \/ StopNotify
  \/ WorkerLock
  \/ WorkerWait
  \/ WorkerWake
  \/ WorkerDrain
  \/ WorkerNext

SpecDrain == InitDrain /\ [][NextDrain]_vars

\* Weak fairness of every step, pipe.send included: the consumer keeps
\* taking what the channel carries.
FairDrain ==
  /\ SpecDrain
  /\ \A t \in Producers :
       /\ WF_vars(StdoutAppend(t))
       /\ WF_vars(StdoutLock(t))
       /\ WF_vars(StdoutNotify(t))
       /\ WF_vars(StderrLock(t))
       /\ WF_vars(StderrAppendNotify(t))
  /\ WF_vars(StopLock)
  /\ WF_vars(StopNotify)
  /\ WF_vars(WorkerLock)
  /\ WF_vars(WorkerWait)
  /\ WF_vars(WorkerWake)
  /\ WF_vars(WorkerDrain)
  /\ WF_vars(WorkerNext)
  /\ WF_vars(StreamLockAcquire(Worker))
  /\ WF_vars(PipeSend(Worker))
  /\ WF_vars(StreamLockRelease(Worker))

\* the messages with which the drain worker has called ThreadSafeStream.write
Written ==
  lock_order \o (IF pc[Worker] = "sw_lock" THEN <<cur[Worker]>> ELSE <<>>)

\* call n of thread t has its message in the buffer, ahead of the sentinel
Buffered(t, n) ==
  \E i \in DOMAIN console_msg_queue :
    /\ console_msg_queue[i].src = t
    /\ console_msg_queue[i].n = n
    /\ \A j \in 1..i : console_msg_queue[j] # Sentinel
    /\ stopped => \E j \in DOMAIN console_msg_queue : console_msg_queue[j] = Sentinel

\* C16: every ConsoleMsg appended to the buffer ahead of the sentinel, also
\* by ThreadSafeStdout that appends before it takes the lock, is eventually
\* passed to ThreadSafeStream.write, and never twice; after stop the drain
\* worker eventually exits.
C16_ExactlyOnceDelivery ==
  /\ [](\A i, j \in DOMAIN Written :
          (Written[i].src = Written[j].src /\ Written[i].n = Written[j].n) => i = j)
  /\ \A t \in Producers : \A n \in 1..MaxWrites :
       Buffered(t, n) ~> (\E i \in DOMAIN Written : Written[i].src = t /\ Written[i].n = n)
  /\ (stopped /\ redirect_console) ~> (pc[Worker] = "w_done")

\* a ThreadSafeStdout message is in the buffer, its producer has not yet
\* notified, and the drain worker is waiting on the condition
C16_Witness ==
  /\ pc[Worker] = "w_wait"
  /\ Worker \in cv_waiters
  /\ \E t \in Producers : pc[t] = "so_lock" /\ Buffered(t, wcount[t])

\* C18 (as claimed): once Watcher.stop has closed both pipe ends and set the
\* exit flag, the forwarding thread eventually exits, with no further raw
\* write needed, wherever the thread was and whether the Watcher was idle,
\* paused or active.
C18_ForwardingThreadExits ==
  should_exit ~> (pc[Fwd] = "f_done")

\* C19 (as claimed): every ConsoleMsg made from bytes that were written to
\* the watched descriptor while a cell was bound carries that cell's id, also
\* when the owner rebinds cell_id before the forwarding thread has forwarded
\* them.
C19_CapturedOutputTagged ==
  \A i \in DOMAIN console_msg_queue :
    LET m == console_msg_queue[i] IN
      m.src = Fwd => \A c \in fwd_cells[m.n] \ {None} : m.cell_id = c

====
